---- MODULE Spec2Model ----
(***************************************************************************)
(* Model of cflib.bootloader.Bootloader (flash_full, start_bootloader,     *)
(* flash, _flash_flash, _internal_flash, _flash_deck).  The Cloader, the   *)
(* SyncCrazyflie session and the deck memory manager are collaborators:    *)
(* their answers (booleans, geometry, deck records) are nondeterministic.  *)
(* An image is modelled by its length; a slice of it by its two offsets.   *)
(* flash_full is run once on a freshly constructed Bootloader, without an  *)
(* info_cb and with a progress_cb; a cold run starts with no               *)
(* application-mode session open.                                          *)
(* EngineSpec runs _flash_flash alone over every geometry and image length *)
(* within the bounds; Spec runs flash_full on one device geometry.         *)
(***************************************************************************)
EXTENDS Integers, Sequences, FiniteSets, TLC

\* ------------------------------------------------------------------ bounds
MaxImageLen == 7
MaxPageSize == 2
MaxBufferPages == 3
MaxStartPage == 1
MaxFlashPages == 6
MaxDecks == 1
MaxTargets == 2
MaxFiles == 2
MaxSize == 3
MaxUpdates == 4
MaxValue == 1

VARIABLES
    pc,             \* position of the running call
    err,            \* the exception that ended the call ("none" while running)
    \* --- arguments of flash_full and facts of the environment
    warm,           \* flash_full's warm argument
    targets,        \* flash_full's targets argument (a list of Target)
    filename,       \* flash_full's filename argument: "none" (None) or "given"
    file,           \* what the file holds, once read: a raw binary or a bundle
    device_proto,   \* the protocol version the device advertises
    device_info,    \* the flash geometry the device reports, per target name
    has_terminate_cb, \* self.terminate_flashing_cb is not None
    has_progress_cb,  \* self.progress_cb is not None
    terminate,      \* what terminate_flashing_cb() returns when polled now
    terminate_at,   \* how many page uploads and deck writes had been issued when
                    \* terminate turned true (-1 before)
    \* --- session
    warm_booted,    \* self.warm_booted
    cf_link,        \* the caller's Crazyflie has an open link (cf is not None and cf.link)
    cload_link,     \* self._cload.link is open: the bootloader session holds the link
    scf_link,       \* the deck pipeline's SyncCrazyflie is open
    device_mode,    \* "firmware" or "bootloader": what the device is running
    sb_warm,        \* start_bootloader's warm_boot argument
    sb_ret,         \* who called start_bootloader: "flash_full" or "flash"
    started,        \* start_bootloader's local started
    protocol_version,       \* self.protocol_version
    cload_protocol_version, \* self._cload.protocol_version
    cload_targets,  \* self._cload.targets : target name -> geometry
    \* --- flash
    artifacts,      \* flash's artifacts (the bundle's, or the raw file's single one)
    deck_update_msg,\* flash's deck_update_msg
    flash_artifacts,\* the list _flash_flash iterates over
    art,            \* enumerate index of _flash_flash (0-based; art + 1 is the file number)
    \* --- _internal_flash
    image_len,      \* len(image) of the artifact being flashed
    t_data,         \* target_info of the artifact being flashed
    i,              \* page index of the for loop of _internal_flash
    ctr,            \* buffer counter of _internal_flash
    progress,       \* progress of _internal_flash, in units of 1 / len(image) percent
    \* --- _flash_deck
    decks,          \* names of the decks query_decks() returned, by deck index
    deck_idx,       \* index of the deck the for loop is at (1-based)
    deck,           \* the deck record most recently queried for that index
    cmds,           \* every command issued so far, oldest first
    \* --- cflib.utils.moving_average.MovingAverage and its user, RFIDLogger
    size,           \* the size argument of MovingAverage's constructor
    fill,           \* the fill argument of MovingAverage's constructor
    elements,       \* self._elements, oldest first
    sum,            \* self._sum
    average,        \* self.average
    recent_value,   \* RFIDLogger.recent_value (-1 while the attribute is not set)
    updates         \* every value passed to update so far, oldest first

argVars == <<warm, targets, filename, device_proto, device_info>>
averageVars == <<size, fill, elements, sum, average, recent_value, updates>>
envVars == <<has_terminate_cb, has_progress_cb, terminate, terminate_at>>
sessVars == <<warm_booted, cf_link, cload_link, scf_link, device_mode, sb_warm, sb_ret,
              started, protocol_version, cload_protocol_version>>
flashVars == <<file, artifacts, deck_update_msg>>
engineVars == <<cload_targets, flash_artifacts, art, image_len, t_data, i, ctr, progress>>
deckVars == <<decks, deck_idx, deck>>
\* what _flash_flash and _internal_flash never touch
outerVars == <<argVars, averageVars, sessVars, flashVars, deckVars>>
vars == <<pc, err, argVars, averageVars, envVars, sessVars, flashVars, engineVars, deckVars, cmds>>

\* what MovingAverage and RFIDLogger never touch
bootVars == <<pc, err, argVars, envVars, sessVars, flashVars, engineVars, deckVars, cmds>>

\* ------------------------------------------------------------- data model
Target(platform, target, type) == [platform |-> platform, target |-> target, type |-> type]
FlashArtifact(content, target) == [content |-> content, target |-> target]

NoGeometry == [addr |-> "none", page_size |-> 1, buffer_pages |-> 1,
               flash_pages |-> 0, start_page |-> 0]

Geometries(addr) ==
    [addr : {addr}, page_size : 1..MaxPageSize, buffer_pages : 1..MaxBufferPages,
     flash_pages : 0..MaxFlashPages, start_page : 0..MaxStartPage]

\* All lists over S of length at most n
SeqsUpTo(S, n) == UNION {[1..k -> S] : k \in 0..n}

\* Mutant: the page count of the log line (int(len(image) / page_size) + 1)
PageCountPrinted(len, page_size) == (len \div page_size) + 1

\* int((len(image) - 1) / page_size) + 1, the number of iterations of the page loop
PageCount(len, page_size) == ((len - 1) \div page_size) + 1

\* The slice uploaded for page k: image[k*ps:] when (k+1)*ps > len, else image[k*ps:(k+1)*ps]
PageSlice(k, len, page_size) ==
    IF (k + 1) * page_size > len
    THEN [lo |-> k * page_size, hi |-> len]
    ELSE [lo |-> k * page_size, hi |-> (k + 1) * page_size]

\* Mutant: the guard refuses an image that fits exactly
NotEnoughSpaceOffByOne(len, g) == len >= (g.flash_pages - g.start_page) * g.page_size

\* len(image) > (flash_pages - start_page) * page_size
NotEnoughSpace(len, g) == len > (g.flash_pages - g.start_page) * g.page_size

\* Mutant: the buffer is programmed one upload too late
BufferFullLate(c, g) == c > g.buffer_pages

\* ctr >= t_data.buffer_pages
BufferFull(c, g) == c >= g.buffer_pages

\* Mutant: the destination is derived from the last buffered page
LoopDestLast(g, k, c) == g.start_page + k

\* start_page + i - (ctr - 1): destination of the write issued inside the loop
LoopDest(g, k, c) == g.start_page + k - (c - 1)

\* Mutant: the residual destination is derived from the last page of the image
ResidualDestLast(g, len, c) == g.start_page + ((len - 1) \div g.page_size)

\* start_page + int((len(image) - 1) / page_size) - (ctr - 1): destination of the residual write
ResidualDest(g, len, c) == g.start_page + ((len - 1) \div g.page_size) - (c - 1)

\* Mutant: every page is uploaded into buffer slot 0
UploadCmdSlotZero(g, n, c, k, len) ==
    [op |-> "upload_buffer", file |-> n, addr |-> g.addr, page |-> 0, off |-> 0,
     data |-> PageSlice(k, len, g.page_size)]

\* upload_buffer(t_data.addr, ctr, 0, <slice of page k>) for file number n
UploadCmd(g, n, c, k, len) ==
    [op |-> "upload_buffer", file |-> n, addr |-> g.addr, page |-> c, off |-> 0,
     data |-> PageSlice(k, len, g.page_size)]

WriteCmd(g, n, dest, c) ==
    [op |-> "write_flash", file |-> n, addr |-> g.addr, src |-> 0, dest |-> dest, num |-> c]

\* A command together with the answer the device gave to it
Answered(c, ok) == [x \in DOMAIN c \cup {"ok"} |-> IF x = "ok" THEN ok ELSE c[x]]

\* if self.progress_cb: self.progress_cb(msg, percent), for file number n
\* (0 outside _internal_flash), appended to the log seq
Report(seq, n, msg, percent) ==
    IF has_progress_cb
    THEN Append(seq, [op |-> "progress", file |-> n, msg |-> msg, percent |-> percent])
    ELSE seq

\* int(progress): progress is a sum of factors 100.0 * page_size / len(image),
\* kept here as the sum of their numerators num over the common denominator len
IntProgress(num, len) == num \div len

\* Mutant: a failed write is not noticed
WriteFailedIgnored(ok) == FALSE

\* if not self._cload.write_flash(...), and the else branch of: if result
WriteFailed(ok) == ~ok

Raise(e) == pc' = "raised" /\ err' = e

\* Mutant: the termination callback is never honoured
TerminateIgnored == FALSE

\* self.terminate_flashing_cb and self.terminate_flashing_cb()
TerminateRequested == has_terminate_cb /\ terminate

\* ---------------------------------------------------------- _flash_flash
\* for (i, artifact) in enumerate(artifacts): self._internal_flash(artifact, i + 1, len(artifacts))
FlashFlashLoop ==
    /\ pc = "ff_loop"
    /\ IF art < Len(flash_artifacts)
       THEN pc' = "if_start" /\ UNCHANGED art
       ELSE pc' = "flash_decks" /\ UNCHANGED art
    /\ UNCHANGED <<outerVars, err, cload_targets, flash_artifacts, image_len, t_data, i, ctr,
                   progress, envVars, cmds>>

\* ------------------------------------------------------- _internal_flash
\* Lines 256-294: geometry lookup, factor and progress, size guard, ctr = 0
InternalFlashStart ==
    /\ pc = "if_start"
    /\ LET artifact == flash_artifacts[art + 1]
           name == artifact.target.target
           starting == Report(cmds, art + 1, "Starting...", IntProgress(0, 1))
       IN IF name \notin DOMAIN cload_targets
          THEN Raise("KeyError") /\ UNCHANGED <<image_len, t_data, i, ctr, progress, cmds>>
          ELSE /\ t_data' = cload_targets[name]
               /\ image_len' = artifact.content
               /\ i' = 0
               /\ ctr' = 0
               /\ progress' = 0
               /\ IF artifact.content = 0
                  THEN Raise("ZeroDivisionError") /\ UNCHANGED cmds
                  ELSE IF NotEnoughSpace(artifact.content, cload_targets[name])
                       THEN /\ Raise("Not enough space to flash the image file")
                            /\ cmds' = Report(starting, art + 1,
                                              "Error: Not enough space to flash the image file.",
                                              IntProgress(0, artifact.content))
                       ELSE pc' = "if_loop" /\ cmds' = starting /\ UNCHANGED err
    /\ UNCHANGED <<outerVars, cload_targets, flash_artifacts, art, envVars>>

\* Lines 295-297: loop head and poll of the termination callback
InternalFlashPoll ==
    /\ pc = "if_loop"
    /\ IF i < PageCount(image_len, t_data.page_size)
       THEN IF TerminateRequested
            THEN Raise("Flashing terminated")
            ELSE pc' = "if_upload" /\ UNCHANGED err
       ELSE pc' = "if_residual" /\ UNCHANGED err
    /\ UNCHANGED <<outerVars, engineVars, envVars, cmds>>

\* progress += factor, line 311: the numerator of factor is 100 * page_size
NextProgress(num, g) == num + 100 * g.page_size

\* Lines 299-320: upload one page into buffer slot ctr, then ctr += 1, then
\* report the progress
InternalFlashUpload ==
    /\ pc = "if_upload"
    /\ progress' = IF has_progress_cb THEN NextProgress(progress, t_data) ELSE progress
    /\ cmds' = Report(Append(cmds, UploadCmd(t_data, art + 1, ctr, i, image_len)),
                      art + 1, "Uploading buffer", IntProgress(progress', image_len))
    /\ ctr' = ctr + 1
    /\ pc' = "if_full"
    /\ UNCHANGED <<outerVars, err, cload_targets, flash_artifacts, art, image_len, t_data, i,
                   envVars>>

\* Lines 322-348: program the buffer when it is full; ok is write_flash's answer
InternalFlashWriteFull ==
    /\ pc = "if_full"
    /\ IF BufferFull(ctr, t_data)
       THEN \E ok \in BOOLEAN :
              LET writing == Report(cmds, art + 1, "Writing buffer",
                                    IntProgress(progress, image_len))
                  written == Append(writing,
                                    Answered(WriteCmd(t_data, art + 1,
                                                      LoopDest(t_data, i, ctr), ctr), ok))
              IN IF WriteFailed(ok)
                 THEN /\ Raise("Error during flash operation")
                      /\ cmds' = Report(written, art + 1, "Error during flash operation",
                                        IntProgress(progress, image_len))
                      /\ UNCHANGED <<i, ctr>>
                 ELSE /\ ctr' = 0
                      /\ i' = i + 1
                      /\ pc' = "if_loop"
                      /\ cmds' = written
                      /\ UNCHANGED err
       ELSE /\ i' = i + 1
            /\ pc' = "if_loop"
            /\ UNCHANGED <<err, ctr, cmds>>
    /\ UNCHANGED <<outerVars, cload_targets, flash_artifacts, art, image_len, t_data, progress,
                   envVars>>

\* Lines 350-372: program what is left in the buffer after the loop
InternalFlashResidual ==
    /\ pc = "if_residual"
    /\ IF ctr > 0
       THEN \E ok \in BOOLEAN :
              LET writing == Report(cmds, art + 1, "Writing buffer",
                                    IntProgress(progress, image_len))
                  written == Append(writing,
                                    Answered(WriteCmd(t_data, art + 1,
                                                      ResidualDest(t_data, image_len, ctr),
                                                      ctr), ok))
              IN IF WriteFailed(ok)
                 THEN /\ Raise("Error during flash operation")
                      /\ cmds' = Report(written, art + 1, "Error during flash operation",
                                        IntProgress(progress, image_len))
                      /\ UNCHANGED art
                 ELSE /\ pc' = "ff_loop"
                      /\ art' = art + 1
                      /\ cmds' = written
                      /\ UNCHANGED err
       ELSE /\ pc' = "ff_loop"
            /\ art' = art + 1
            /\ UNCHANGED <<err, cmds>>
    /\ UNCHANGED <<outerVars, cload_targets, flash_artifacts, image_len, t_data, i, ctr,
                   progress, envVars>>

\* The commands the termination callback is meant to stop: page uploads, deck writes
Transfers == SelectSeq(cmds, LAMBDA c : c.op \in {"upload_buffer", "write_sync"})

\* The caller's termination predicate starts returning true
TerminateFlips ==
    /\ has_terminate_cb
    /\ ~terminate
    /\ pc \notin {"raised", "returned"}
    /\ terminate' = TRUE
    /\ terminate_at' = Len(Transfers)
    /\ UNCHANGED <<outerVars, pc, err, engineVars, has_terminate_cb, has_progress_cb, cmds>>

\* -------------------------------------------------------- the session
ProtocolVersions == {"CF1_PROTO_VER_0", "CF1_PROTO_VER_1", "CF2_PROTO_VER", "UNKNOWN_PROTO_VER"}

\* BootVersion.is_cf2
is_cf2(v) == v = "CF2_PROTO_VER"

\* _get_platform_id
PlatformId == IF is_cf2(protocol_version) THEN "cf2" ELSE "cf1"

\* Mutant: the reset is always addressed to the STM32
ResetTargetStm32 == "stm32"

\* reset_to_firmware: NRF51 for the CF2 protocol, STM32 otherwise
ResetTarget == IF cload_protocol_version = "CF2_PROTO_VER" THEN "nrf51" ELSE "stm32"

Cmd(op) == [op |-> op]

\* flash_full, lines 202-207: install the callbacks, call start_bootloader(warm, cf)
FlashFullStart ==
    /\ pc = "full_start"
    /\ sb_warm' = warm
    /\ sb_ret' = "flash_full"
    /\ pc' = "sb_enter"
    /\ UNCHANGED <<err, argVars, averageVars, envVars, warm_booted, cf_link, cload_link, scf_link,
                   device_mode, started, protocol_version, cload_protocol_version,
                   flashVars, engineVars, deckVars, cmds>>

\* start_bootloader, lines 94-96 and 104
StartBootloaderEnter ==
    /\ pc = "sb_enter"
    /\ warm_booted' = sb_warm
    /\ pc' = IF sb_warm THEN "sb_close_cf" ELSE "sb_cold"
    /\ UNCHANGED <<err, argVars, averageVars, envVars, cf_link, cload_link, scf_link, device_mode,
                   sb_warm, sb_ret, started, protocol_version, cload_protocol_version,
                   flashVars, engineVars, deckVars, cmds>>

\* Lines 97-98: close the application link of the caller's Crazyflie
StartBootloaderCloseCf ==
    /\ pc = "sb_close_cf"
    /\ cf_link' = FALSE
    /\ pc' = "sb_open"
    /\ UNCHANGED <<err, argVars, averageVars, envVars, warm_booted, cload_link, scf_link, device_mode,
                   sb_warm, sb_ret, started, protocol_version, cload_protocol_version,
                   flashVars, engineVars, deckVars, cmds>>

\* Line 99: open_bootloader_uri(self.clink)
StartBootloaderOpen ==
    /\ pc = "sb_open"
    /\ cload_link' = TRUE
    /\ cmds' = Append(cmds, Cmd("open_bootloader_uri"))
    /\ pc' = "sb_reset"
    /\ UNCHANGED <<err, argVars, averageVars, envVars, warm_booted, cf_link, scf_link, device_mode,
                   sb_warm, sb_ret, started, protocol_version, cload_protocol_version,
                   flashVars, engineVars, deckVars>>

\* Lines 100-101: started = reset_to_bootloader(NRF51)
StartBootloaderReset ==
    /\ pc = "sb_reset"
    /\ cmds' = Append(cmds, Cmd("reset_to_bootloader"))
    /\ \E ok \in BOOLEAN :
         /\ started' = ok
         /\ device_mode' = IF ok THEN "bootloader" ELSE device_mode
         /\ pc' = IF ok THEN "sb_check" ELSE "sb_proto"
    /\ UNCHANGED <<err, argVars, averageVars, envVars, warm_booted, cf_link, cload_link, scf_link,
                   sb_warm, sb_ret, protocol_version, cload_protocol_version,
                   flashVars, engineVars, deckVars>>

\* Lines 104-116: cold entry; found is whether scan_for_bootloader returned a uri
StartBootloaderCold ==
    /\ pc = "sb_cold"
    /\ IF ~cload_link
       THEN \E found \in {f \in BOOLEAN : f => device_mode = "bootloader"} :
              IF found
              THEN /\ cload_link' = TRUE
                   /\ cmds' = Append(cmds, Cmd("open_bootloader_uri"))
                   /\ pc' = "sb_check"
                   /\ UNCHANGED started
              ELSE /\ started' = FALSE
                   /\ pc' = "sb_proto"
                   /\ UNCHANGED <<cload_link, cmds>>
       ELSE /\ started' = TRUE
            /\ pc' = "sb_proto"
            /\ UNCHANGED <<cload_link, cmds>>
    /\ UNCHANGED <<err, argVars, averageVars, envVars, warm_booted, cf_link, scf_link, device_mode,
                   sb_warm, sb_ret, protocol_version, cload_protocol_version,
                   flashVars, engineVars, deckVars>>

\* Lines 102 and 112: started = check_link_and_get_info(); on success the Cloader
\* knows the advertised protocol version and the geometry of the STM32 target
StartBootloaderCheck ==
    /\ pc = "sb_check"
    /\ \E ok \in {b \in BOOLEAN : b => device_mode = "bootloader"} :
         /\ started' = ok
         /\ IF ok
            THEN /\ cload_protocol_version' = device_proto
                 /\ cload_targets' = [n \in {"stm32"} |-> device_info[n]]
            ELSE UNCHANGED <<cload_protocol_version, cload_targets>>
    /\ pc' = "sb_proto"
    /\ UNCHANGED <<err, argVars, averageVars, envVars, warm_booted, cf_link, cload_link, scf_link,
                   device_mode, sb_warm, sb_ret, protocol_version, flashVars,
                   flash_artifacts, art, image_len, t_data, i, ctr, progress, deckVars, cmds>>

\* Lines 117-130: protocol dispatch, then return started to the caller
StartBootloaderProtocol ==
    /\ pc = "sb_proto"
    /\ IF started
       THEN /\ protocol_version' = cload_protocol_version
            /\ IF cload_protocol_version = "CF2_PROTO_VER"
               THEN cload_targets' = [n \in {"stm32", "nrf51"} |-> device_info[n]]
               ELSE UNCHANGED cload_targets
       ELSE UNCHANGED <<protocol_version, cload_targets>>
    /\ pc' = IF sb_ret = "flash_full" THEN "full_started" ELSE "f_reentered"
    /\ UNCHANGED <<err, argVars, averageVars, envVars, warm_booted, cf_link, cload_link, scf_link,
                   device_mode, sb_warm, sb_ret, started, cload_protocol_version, flashVars,
                   flash_artifacts, art, image_len, t_data, i, ctr, progress, deckVars, cmds>>

\* flash_full, lines 207-217: give up when not started; flash when a file is
\* given (info_cb is None, so lines 210-214 do nothing)
FlashFullStarted ==
    /\ pc = "full_started"
    /\ IF ~started
       THEN Raise("Could not connect to bootloader")
       ELSE /\ pc' = IF filename = "none" THEN "returned" ELSE "f_start"
            /\ UNCHANGED err
    /\ UNCHANGED <<argVars, averageVars, envVars, sessVars, flashVars, engineVars, deckVars, cmds>>

\* reset_to_firmware, lines 244-248, as the last step of flash_full (line 218)
FlashFullReset ==
    /\ pc = "full_reset"
    /\ cmds' = Append(cmds, [op |-> "reset_to_firmware", target |-> ResetTarget])
    /\ device_mode' = IF cload_link THEN "firmware" ELSE device_mode
    /\ pc' = "returned"
    /\ UNCHANGED <<err, argVars, averageVars, envVars, warm_booted, cf_link, cload_link, scf_link,
                   sb_warm, sb_ret, started, protocol_version, cload_protocol_version,
                   flashVars, engineVars, deckVars>>

\* ----------------------------------------------------------------- flash
\* _get_flash_artifacts_from_zip, lines 220-238
ArtifactsFromZip(f) == IF f.kind = "zip" THEN f.files ELSE <<>>

\* [t for t in targets if t.platform == platform]
TargetsOf(platform) == SelectSeq(targets, LAMBDA t : t.platform = platform)

\* Mutant: the selected artifacts come out in reverse order
ArtifactsOfReversed(as, platform) ==
    LET sel == SelectSeq(as, LAMBDA a : a.target.platform = platform)
    IN [k \in 1..Len(sel) |-> sel[Len(sel) + 1 - k]]

\* [a for a in artifacts if a.target.platform == platform]
ArtifactsOf(as, platform) == SelectSeq(as, LAMBDA a : a.target.platform = platform)

\* Mutant: a raw file is accepted with any non-empty targets list
LoadErrorLax(f) ==
    IF f.kind = "zip" /\ f.version # 1 THEN "Wrong manifest version"
    ELSE IF Len(ArtifactsFromZip(f)) = 0 /\ Len(targets) = 0
         THEN "Cannot flash a .bin to more than one target!"
         ELSE "none"

\* What lines 141-148 make of file f: the bundle's artifacts, or the raw
\* file as one artifact for the single target; an error otherwise
LoadError(f) ==
    IF f.kind = "zip" /\ f.version # 1 THEN "Wrong manifest version"
    ELSE IF Len(ArtifactsFromZip(f)) = 0 /\ Len(targets) # 1
         THEN "Cannot flash a .bin to more than one target!"
         ELSE "none"

LoadedArtifacts(f) ==
    IF Len(ArtifactsFromZip(f)) = 0
    THEN <<FlashArtifact(f.content, targets[1])>>
    ELSE ArtifactsFromZip(f)

\* Lines 136-152: partition the targets, read the file f, partition the artifacts
FlashStartWith(f) ==
    /\ pc = "f_start"
    /\ file' = f
    /\ IF LoadError(f) # "none"
       THEN Raise(LoadError(f)) /\ UNCHANGED <<artifacts, flash_artifacts>>
       ELSE /\ artifacts' = LoadedArtifacts(f)
            /\ flash_artifacts' = ArtifactsOf(LoadedArtifacts(f), PlatformId)
            /\ pc' = "f_mcu"
            /\ UNCHANGED err
    /\ UNCHANGED <<argVars, averageVars, envVars, sessVars, deck_update_msg, cload_targets, art,
                   image_len, t_data, i, ctr, progress, deckVars, cmds>>

\* Lines 154-156: self._flash_flash(flash_artifacts, flash_targets)
FlashMcu ==
    /\ pc = "f_mcu"
    /\ IF Len(targets) = 0 \/ Len(TargetsOf(PlatformId)) > 0
       THEN pc' = "ff_loop"
       ELSE pc' = "flash_decks"
    /\ UNCHANGED <<err, argVars, averageVars, envVars, sessVars, flashVars, engineVars, deckVars, cmds>>

\* Mutant: the deck pipeline is entered whatever the boot mode
DeckPipelineAlways == TRUE

\* self.warm_booted, as line 162 reads it
DeckPipelineAllowed == warm_booted

\* Lines 158-162 and 180-182: decks are handled only after a warm boot
FlashDecks ==
    /\ pc = "flash_decks"
    /\ IF Len(targets) = 0 \/ Len(TargetsOf("deck")) > 0
       THEN IF DeckPipelineAllowed
            THEN pc' = "f_reset" /\ deck_update_msg' = "Deck update skipped."
            ELSE pc' = "f_done" /\ deck_update_msg' = "Deck update skipped in ColdBoot mode."
       ELSE pc' = "f_done" /\ deck_update_msg' = "Deck update skipped."
    /\ UNCHANGED <<err, argVars, averageVars, envVars, sessVars, file, artifacts, engineVars, deckVars,
                   cmds>>

\* Lines 163-167: report the restart, then self.reset_to_firmware()
FlashResetToFirmware ==
    /\ pc = "f_reset"
    /\ cmds' = Append(Report(cmds, 0, "Restarting firmware to update decks.", 0),
                      [op |-> "reset_to_firmware", target |-> ResetTarget])
    /\ device_mode' = IF cload_link THEN "firmware" ELSE device_mode
    /\ pc' = "f_close"
    /\ UNCHANGED <<err, argVars, averageVars, envVars, warm_booted, cf_link, cload_link, scf_link,
                   sb_warm, sb_ret, started, protocol_version, cload_protocol_version,
                   flashVars, engineVars, deckVars>>

\* Mutant: the bootloader link is left open when the deck pipeline starts
FlashCloseSkipped ==
    /\ pc = "f_close"
    /\ pc' = "fd_open"
    /\ UNCHANGED <<err, argVars, averageVars, envVars, sessVars, flashVars, engineVars, deckVars, cmds>>

\* Lines 168-171: self.close(), sleep, then _flash_deck(deck_artifacts, deck_targets)
FlashClose ==
    /\ pc = "f_close"
    /\ cload_link' = FALSE
    /\ cmds' = Append(cmds, Cmd("close"))
    /\ pc' = "fd_open"
    /\ UNCHANGED <<err, argVars, averageVars, envVars, warm_booted, cf_link, scf_link, device_mode,
                   sb_warm, sb_ret, started, protocol_version, cload_protocol_version,
                   flashVars, engineVars, deckVars>>

\* Lines 173-177: report the deck update, then
\* self.start_bootloader(warm_boot=True, cf=cf); its result is dropped
FlashReenter ==
    /\ pc = "f_reenter"
    /\ cmds' = Report(cmds, 0, "Deck updated! Restarting firmware.", 100)
    /\ sb_warm' = TRUE
    /\ sb_ret' = "flash"
    /\ pc' = "sb_enter"
    /\ UNCHANGED <<err, argVars, averageVars, envVars, warm_booted, cf_link, cload_link, scf_link,
                   device_mode, started, protocol_version, cload_protocol_version,
                   flashVars, engineVars, deckVars>>

\* Line 179, after start_bootloader has returned
FlashReentered ==
    /\ pc = "f_reentered"
    /\ deck_update_msg' = "Deck update complete."
    /\ pc' = "f_done"
    /\ UNCHANGED <<err, argVars, averageVars, envVars, sessVars, file, artifacts, engineVars, deckVars,
                   cmds>>

\* Lines 184-189: report 'Flashing done!' and return to flash_full
FlashDone ==
    /\ pc = "f_done"
    /\ cmds' = Append(cmds, [op |-> "flashing_done", msg |-> deck_update_msg])
    /\ pc' = "full_reset"
    /\ UNCHANGED <<err, argVars, averageVars, envVars, sessVars, flashVars, engineVars, deckVars>>

\* ----------------------------------------------------------- _flash_deck
DeckNames == {"bcLighthouse4", "bcAI"}

\* A deck record as query_decks() returns it
DeckRecords(name) ==
    [name : {name}, is_started : BOOLEAN, supports_fw_upgrade : BOOLEAN,
     is_fw_upgrade_required : BOOLEAN, is_bootloader_active : BOOLEAN]

NoDeck == [name |-> "none", is_started |-> FALSE, supports_fw_upgrade |-> FALSE,
           is_fw_upgrade_required |-> FALSE, is_bootloader_active |-> FALSE]

\* An exception inside the with block: SyncCrazyflie's exit closes the link first
DeckRaise(e) == Raise(e) /\ scf_link' = FALSE

\* Leaving the with block normally: the link is closed, the locals of _flash_deck
\* are gone and flash goes on at line 173
DeckReturn ==
    /\ pc' = "f_reenter"
    /\ scf_link' = FALSE
    /\ decks' = <<>>
    /\ deck_idx' = 1
    /\ deck' = NoDeck
    /\ UNCHANGED err

\* continue: the for loop binds deck to the record of the next index
DeckContinue ==
    /\ pc' = "fd_loop"
    /\ deck_idx' = deck_idx + 1
    /\ deck' = NoDeck
    /\ UNCHANGED <<err, scf_link, decks>>

\* [t for t in targets if t == Target('deck', deck.name, 'fw')]
DeckTargetsFor(name) == SelectSeq(TargetsOf("deck"), LAMBDA t : t = Target("deck", name, "fw"))

\* [a for a in artifacts if a.target == Target('deck', deck.name, 'fw')]
DeckArtifactsFor(name) ==
    SelectSeq(ArtifactsOf(artifacts, "deck"), LAMBDA a : a.target = Target("deck", name, "fw"))

\* (not flash_all_targets) and len(deck_target) == 0
DeckNotSelected(name) == Len(TargetsOf("deck")) # 0 /\ Len(DeckTargetsFor(name)) = 0

\* Mutant: the check that the deck's bootloader is active is left out
DeckUpgradableLax(d) == d.supports_fw_upgrade /\ d.is_fw_upgrade_required

\* The record's sanity checks of lines 425-435 all pass
DeckUpgradable(d) ==
    d.supports_fw_upgrade /\ d.is_fw_upgrade_required /\ d.is_bootloader_active

deckFixed == <<argVars, averageVars, envVars, warm_booted, cf_link, cload_link, device_mode, sb_warm,
               sb_ret, started, protocol_version, cload_protocol_version, flashVars,
               engineVars>>

\* Lines 383-388: report the detection, open the application-mode session
FlashDeckOpen ==
    /\ pc = "fd_open"
    /\ \E ok \in BOOLEAN :
         IF ok
         THEN /\ scf_link' = TRUE
              /\ cmds' = Append(Report(cmds, 0, "Detecting deck to be updated", 25),
                                Cmd("scf.open_link"))
              /\ pc' = "fd_mems"
              /\ UNCHANGED err
         ELSE /\ Raise("Could not open the application link")
              /\ cmds' = Report(cmds, 0, "Detecting deck to be updated", 25)
              /\ UNCHANGED scf_link
    /\ UNCHANGED <<deckFixed, deckVars>>

\* Lines 389-395: no deck memory means nothing to do; otherwise query the decks
FlashDeckMems ==
    /\ pc = "fd_mems"
    /\ \E deck_mems_count \in {0, 1} :
         IF deck_mems_count = 0
         THEN DeckReturn
         ELSE /\ \E ds \in SeqsUpTo(DeckNames, MaxDecks) : decks' = ds
              /\ deck_idx' = 1
              /\ pc' = "fd_loop"
              /\ UNCHANGED <<err, scf_link, deck>>
    /\ UNCHANGED <<deckFixed, cmds>>

\* Lines 397-416: next deck; poll the termination callback; keep the deck only if
\* it is selected and the bundle has an artifact for it
FlashDeckLoop ==
    /\ pc = "fd_loop"
    /\ IF deck_idx > Len(decks)
       THEN DeckReturn /\ UNCHANGED cmds
       ELSE IF TerminateRequested
            THEN DeckRaise("Flashing terminated") /\ UNCHANGED <<deckVars, cmds>>
            ELSE IF \/ DeckNotSelected(decks[deck_idx])
                    \/ Len(DeckArtifactsFor(decks[deck_idx])) = 0
                 THEN DeckContinue /\ UNCHANGED cmds
                 ELSE /\ \E d \in DeckRecords(decks[deck_idx]) : deck' = d
                      /\ cmds' = Report(cmds, 0, "Updating deck", 50)
                      /\ pc' = "fd_wait"
                      /\ UNCHANGED <<err, scf_link, decks, deck_idx>>
    /\ UNCHANGED deckFixed

\* Mutant: the wait loop polls the termination callback
FlashDeckWaitPolling ==
    /\ pc = "fd_wait"
    /\ IF ~deck.is_started
       THEN IF TerminateRequested
            THEN DeckRaise("Flashing terminated") /\ UNCHANGED deckVars
            ELSE /\ \E d \in DeckRecords(deck.name) : deck' = d
                 /\ UNCHANGED <<pc, err, scf_link, decks, deck_idx>>
       ELSE /\ pc' = "fd_checks"
            /\ UNCHANGED <<err, scf_link, deckVars>>
    /\ UNCHANGED <<deckFixed, cmds>>

\* Lines 418-422: while the deck is not started, query its record again
FlashDeckWait ==
    /\ pc = "fd_wait"
    /\ IF ~deck.is_started
       THEN /\ \E d \in DeckRecords(deck.name) : deck' = d
            /\ UNCHANGED pc
       ELSE /\ pc' = "fd_checks"
            /\ UNCHANGED deck
    /\ UNCHANGED <<deckFixed, err, scf_link, decks, deck_idx, cmds>>

\* Lines 424-435: the three sanity checks, each skipping the deck
FlashDeckChecks ==
    /\ pc = "fd_checks"
    /\ IF ~DeckUpgradable(deck)
       THEN DeckContinue
       ELSE pc' = "fd_write" /\ UNCHANGED <<err, scf_link, deckVars>>
    /\ UNCHANGED <<deckFixed, cmds>>

\* Lines 437-445: result = deck.write_sync(0, deck_artifact.content)
FlashDeckWrite ==
    /\ pc = "fd_write"
    /\ \E result \in BOOLEAN :
         LET written ==
               Append(cmds,
                      Answered([op |-> "write_sync", deck |-> deck_idx, name |-> deck.name,
                                record |-> deck, off |-> 0,
                                content |-> DeckArtifactsFor(deck.name)[1].content], result))
         IN IF WriteFailed(result)
            THEN /\ DeckRaise("Failed to update deck")
                 /\ cmds' = Report(written, 0, "Failed to update deck", 0)
                 /\ UNCHANGED deckVars
            ELSE /\ DeckContinue
                 /\ cmds' = Report(written, 0, "Deck updated succesfully!", 75)
    /\ UNCHANGED deckFixed

\* ------------------------------------------------------- MovingAverage
\* The values a caller passes to update, and the fills
Values == (0 - MaxValue)..MaxValue

\* The values of the log variable rfid.value, a uint16_t
Readings == 0..MaxValue

\* Mutant: the newest element is subtracted instead of the oldest
UpdatedSumNewest(s, els, value) == (s - els[Len(els)]) + value

\* self._sum -= self._elements[0]; self._sum += value
UpdatedSum(s, els, value) == (s - els[1]) + value

\* MovingAverage.update(value): the oldest element leaves, value enters
update(value) ==
    /\ sum' = UpdatedSum(sum, elements, value)
    /\ elements' = Append(Tail(elements), value)
    /\ updates' = Append(updates, value)
    /\ UNCHANGED <<size, fill, average>>

\* MovingAverage.getAverage(): float(self._sum) / len(self._elements), as the
\* fraction num / den
getAverage == [num |-> sum, den |-> Len(elements)]

\* A caller updates the average
MovingAverageUpdate ==
    /\ Len(updates) < MaxUpdates
    /\ \E value \in Values : update(value)
    /\ UNCHANGED <<recent_value, bootVars>>

\* RFIDLogger._rfid_log_data: a log packet, with or without rfid.value
RfidLogData ==
    /\ Len(updates) < MaxUpdates
    /\ \E has_value \in BOOLEAN, value \in Readings :
         IF has_value
         THEN recent_value' = value /\ update(value)
         ELSE UNCHANGED averageVars
    /\ UNCHANGED bootVars

\* No moving average is in play in a flashing session: an untouched
\* MovingAverage(1, 0)
NoAverage ==
    /\ size = 1
    /\ fill = 0
    /\ elements = <<0>>
    /\ sum = 0
    /\ average = 0
    /\ recent_value = -1
    /\ updates = <<>>

\* ------------------------------------------------ the flashing engine alone
EngineTargets == {Target("cf2", "stm32", "fw")}

\* _flash_flash entered from a flash of one raw image in a cold CF2 session
EngineInit ==
    /\ pc = "ff_loop"
    /\ err = "none"
    /\ warm = FALSE
    /\ targets \in {<<t>> : t \in EngineTargets}
    /\ filename = "given"
    /\ \E len \in 1..MaxImageLen :
         /\ file = [kind |-> "raw", version |-> 0, files |-> <<>>, content |-> len]
         /\ artifacts = <<FlashArtifact(len, targets[1])>>
         /\ flash_artifacts = artifacts
    /\ device_proto = "CF2_PROTO_VER"
    /\ device_info \in [{"stm32"} -> Geometries("stm32")]
    /\ cload_targets = device_info
    /\ has_terminate_cb \in BOOLEAN
    /\ has_progress_cb \in BOOLEAN
    /\ terminate = FALSE
    /\ terminate_at = -1
    /\ warm_booted = FALSE
    /\ cf_link = FALSE
    /\ cload_link = TRUE
    /\ scf_link = FALSE
    /\ device_mode = "bootloader"
    /\ sb_warm = FALSE
    /\ sb_ret = "flash_full"
    /\ started = TRUE
    /\ protocol_version = "CF2_PROTO_VER"
    /\ cload_protocol_version = "CF2_PROTO_VER"
    /\ deck_update_msg = ""
    /\ art = 0
    /\ image_len = 0
    /\ t_data = NoGeometry
    /\ i = 0
    /\ ctr = 0
    /\ progress = 0
    /\ decks = <<>>
    /\ deck_idx = 1
    /\ deck = NoDeck
    /\ cmds = <<>>
    /\ NoAverage

EngineNext ==
    \/ FlashFlashLoop
    \/ InternalFlashStart
    \/ InternalFlashPoll
    \/ InternalFlashUpload
    \/ InternalFlashWriteFull
    \/ InternalFlashResidual
    \/ TerminateFlips

EngineSpec == EngineInit /\ [][EngineNext]_vars

\* ------------------------------------------------------- a flash_full run
Stm32Fw == Target("cf2", "stm32", "fw")
Nrf51Fw == Target("cf2", "nrf51", "fw")
Cf1Fw == Target("cf1", "stm32", "fw")
DeckFw(name) == Target("deck", name, "fw")

\* The targets a caller may name, in a fixed order
TargetOrder == <<Stm32Fw, Nrf51Fw, Cf1Fw, DeckFw("bcLighthouse4")>>

\* The targets lists a caller passes: up to MaxTargets distinct targets
TargetLists ==
    {[k \in 1..Len(ix) |-> TargetOrder[ix[k]]] :
        ix \in {jx \in SeqsUpTo(1..Len(TargetOrder), MaxTargets) :
                    \A a, b \in 1..Len(jx) : a < b => jx[a] < jx[b]}}

\* The targets a bundle may hold an image for
BundleTargets == {Stm32Fw, Nrf51Fw, Cf1Fw, DeckFw("bcLighthouse4")}

\* The geometry the device of a flash_full run reports
RunGeometry ==
    [n \in {"stm32", "nrf51"} |->
        IF n = "stm32"
        THEN [addr |-> "stm32", page_size |-> 2, buffer_pages |-> 2,
              flash_pages |-> 4, start_page |-> 1]
        ELSE [addr |-> "nrf51", page_size |-> 1, buffer_pages |-> 2,
              flash_pages |-> 4, start_page |-> 1]]

\* Length of the image a bundle carries for a target
ContentFor(t) == IF t.target = "stm32" THEN 5 ELSE 3

Unread == [kind |-> "unread", version |-> 0, files |-> <<>>, content |-> 0]
RawFile == [kind |-> "raw", version |-> 0, files |-> <<>>, content |-> 5]
ZipFile(v, fs) == [kind |-> "zip", version |-> v, files |-> fs, content |-> 5]

\* The files maps of a manifest: up to MaxFiles images, each for a target of its own
Bundles ==
    {fs \in SeqsUpTo({FlashArtifact(ContentFor(t), t) : t \in BundleTargets}, MaxFiles) :
        \A a, b \in 1..Len(fs) : a # b => fs[a] # fs[b]}

\* What the file named by filename may hold
Files == {RawFile} \cup {ZipFile(v, fs) : v \in {1, 2}, fs \in Bundles}

FlashStart == \E f \in Files : FlashStartWith(f)

Init ==
    /\ pc = "full_start"
    /\ err = "none"
    /\ warm \in BOOLEAN
    /\ targets \in TargetLists
    /\ filename \in {"none", "given"}
    /\ file = Unread
    /\ device_proto \in ProtocolVersions
    /\ device_info = RunGeometry
    /\ has_terminate_cb \in BOOLEAN
    \* the caller of flash_full passes a progress_cb
    /\ has_progress_cb = TRUE
    /\ terminate = FALSE
    /\ terminate_at = -1
    /\ warm_booted = FALSE
    \* a cold boot is preceded by no application-mode session
    /\ cf_link \in (IF warm THEN BOOLEAN ELSE {FALSE})
    /\ cload_link = FALSE
    /\ scf_link = FALSE
    /\ device_mode = (IF warm THEN "firmware" ELSE "bootloader")
    /\ sb_warm = FALSE
    /\ sb_ret = "flash_full"
    /\ started = FALSE
    /\ protocol_version = "unset"
    /\ cload_protocol_version = "unset"
    /\ cload_targets = [n \in {} |-> NoGeometry]
    /\ artifacts = <<>>
    /\ deck_update_msg = ""
    /\ flash_artifacts = <<>>
    /\ art = 0
    /\ image_len = 0
    /\ t_data = NoGeometry
    /\ i = 0
    /\ ctr = 0
    /\ progress = 0
    /\ decks = <<>>
    /\ deck_idx = 1
    /\ deck = NoDeck
    /\ cmds = <<>>
    /\ NoAverage

Next ==
    \/ FlashFullStart
    \/ StartBootloaderEnter
    \/ StartBootloaderCloseCf
    \/ StartBootloaderOpen
    \/ StartBootloaderReset
    \/ StartBootloaderCold
    \/ StartBootloaderCheck
    \/ StartBootloaderProtocol
    \/ FlashFullStarted
    \/ FlashStart
    \/ FlashMcu
    \/ FlashFlashLoop
    \/ InternalFlashStart
    \/ InternalFlashPoll
    \/ InternalFlashUpload
    \/ InternalFlashWriteFull
    \/ InternalFlashResidual
    \/ FlashDecks
    \/ FlashResetToFirmware
    \/ FlashClose
    \/ FlashDeckOpen
    \/ FlashDeckMems
    \/ FlashDeckLoop
    \/ FlashDeckWait
    \/ FlashDeckChecks
    \/ FlashDeckWrite
    \/ FlashReenter
    \/ FlashReentered
    \/ FlashDone
    \/ FlashFullReset
    \/ TerminateFlips

Spec == Init /\ [][Next]_vars

\* ------------------------------------------------ the deck pipeline alone
\* The selections that make a CF2 flash skip the main MCU and go to the decks
DeckOnlyTargetLists ==
    {ts \in TargetLists :
        /\ DeckFw("bcLighthouse4") \in {ts[k] : k \in 1..Len(ts)}
        /\ \A k \in 1..Len(ts) : ts[k].platform # "cf2"}

\* _flash_deck about to be entered (line 171) in a warm CF2 flash_full with a
\* deck-only selection: the bootloader was entered, nothing was flashed, the
\* device was reset to firmware and the bootloader link closed
DeckInit ==
    /\ pc = "fd_open"
    /\ err = "none"
    /\ warm = TRUE
    /\ targets \in DeckOnlyTargetLists
    /\ filename = "given"
    /\ file \in {f \in Files : LoadError(f) = "none"}
    /\ device_proto = "CF2_PROTO_VER"
    /\ device_info = RunGeometry
    /\ has_terminate_cb \in BOOLEAN
    /\ has_progress_cb = TRUE
    /\ terminate = FALSE
    /\ terminate_at = -1
    /\ warm_booted = TRUE
    /\ cf_link = FALSE
    /\ cload_link = FALSE
    /\ scf_link = FALSE
    /\ device_mode = "firmware"
    /\ sb_warm = TRUE
    /\ sb_ret = "flash_full"
    /\ started = TRUE
    /\ protocol_version = "CF2_PROTO_VER"
    /\ cload_protocol_version = "CF2_PROTO_VER"
    /\ cload_targets = RunGeometry
    /\ artifacts = LoadedArtifacts(file)
    /\ deck_update_msg = "Deck update skipped."
    /\ flash_artifacts = ArtifactsOf(artifacts, "cf2")
    /\ art = 0
    /\ image_len = 0
    /\ t_data = NoGeometry
    /\ i = 0
    /\ ctr = 0
    /\ progress = 0
    /\ decks = <<>>
    /\ deck_idx = 1
    /\ deck = NoDeck
    /\ cmds = <<Cmd("open_bootloader_uri"), Cmd("reset_to_bootloader"),
                [op |-> "progress", file |-> 0,
                 msg |-> "Restarting firmware to update decks.", percent |-> 0],
                [op |-> "reset_to_firmware", target |-> "nrf51"], Cmd("close")>>
    /\ NoAverage

DeckNext ==
    \/ FlashDeckOpen
    \/ FlashDeckMems
    \/ FlashDeckLoop
    \/ FlashDeckWait
    \/ FlashDeckChecks
    \/ FlashDeckWrite
    \/ TerminateFlips

\* The steps of _flash_deck itself: the thread that runs it keeps running
DeckProgram ==
    \/ FlashDeckOpen
    \/ FlashDeckMems
    \/ FlashDeckLoop
    \/ FlashDeckWait
    \/ FlashDeckChecks
    \/ FlashDeckWrite

DeckSpec == DeckInit /\ [][DeckNext]_vars /\ WF_vars(DeckProgram)

\* --------------------------------------------- a MovingAverage at work
\* A Bootloader on which nothing is called
BootIdle ==
    /\ pc = "idle"
    /\ err = "none"
    /\ warm = FALSE
    /\ targets = <<>>
    /\ filename = "none"
    /\ file = Unread
    /\ device_proto = "CF2_PROTO_VER"
    /\ device_info = RunGeometry
    /\ has_terminate_cb = FALSE
    /\ has_progress_cb = FALSE
    /\ terminate = FALSE
    /\ terminate_at = -1
    /\ warm_booted = FALSE
    /\ cf_link = FALSE
    /\ cload_link = FALSE
    /\ scf_link = FALSE
    /\ device_mode = "firmware"
    /\ sb_warm = FALSE
    /\ sb_ret = "flash_full"
    /\ started = FALSE
    /\ protocol_version = "unset"
    /\ cload_protocol_version = "unset"
    /\ cload_targets = [n \in {} |-> NoGeometry]
    /\ artifacts = <<>>
    /\ deck_update_msg = ""
    /\ flash_artifacts = <<>>
    /\ art = 0
    /\ image_len = 0
    /\ t_data = NoGeometry
    /\ i = 0
    /\ ctr = 0
    /\ progress = 0
    /\ decks = <<>>
    /\ deck_idx = 1
    /\ deck = NoDeck
    /\ cmds = <<>>

\* MovingAverage.__init__(size, fill), lines 2-5
AverageInit ==
    /\ BootIdle
    /\ size \in 1..MaxSize
    /\ fill \in Values
    /\ elements = [k \in 1..size |-> fill]
    /\ sum = fill * size
    /\ average = fill
    /\ recent_value = -1
    /\ updates = <<>>

AverageNext ==
    \/ MovingAverageUpdate
    \/ RfidLogData

AverageSpec == AverageInit /\ [][AverageNext]_vars

\* ------------------------------------------------- claims on the engine
CeilDiv(a, b) == (a + b - 1) \div b

IsWrite(c) == c.op = "write_flash"
IsUpload(c) == c.op = "upload_buffer"

\* Positions in cmds of the commands of kind op issued for file number n
Positions(op, n) == {p \in 1..Len(cmds) : cmds[p].op = op /\ cmds[p].file = n}

\* Geometry and image length of file number n of the running _flash_flash
GeometryOf(n) == cload_targets[flash_artifacts[n].target.target]
LengthOf(n) == flash_artifacts[n].content

\* File numbers whose _internal_flash has returned without raising
Completed == 1..art

PagesOf(p) == cmds[p].dest .. (cmds[p].dest + cmds[p].num - 1)

\* C1: when _internal_flash completes without raising for an image of length
\* L >= 1, the pages covered by its write_flash commands are exactly
\* start_page .. start_page + ceil(L / page_size) - 1, each page is covered by
\* exactly one command, and the commands are issued in strictly ascending
\* destination order.
C1_PageCoverage ==
    \A n \in Completed :
        LET g == GeometryOf(n)
            W == Positions("write_flash", n)
        IN /\ UNION {PagesOf(p) : p \in W}
                = g.start_page .. (g.start_page + CeilDiv(LengthOf(n), g.page_size) - 1)
           /\ \A p, q \in W : p # q => PagesOf(p) \cap PagesOf(q) = {}
           /\ \A p, q \in W : p < q => cmds[p].dest < cmds[q].dest

\* A completed flash with a full batch followed by a residual batch, the last
\* page being a partial one.
C1_Witness ==
    /\ 1 \in Completed
    /\ Cardinality(Positions("write_flash", 1)) >= 2
    /\ LengthOf(1) % GeometryOf(1).page_size # 0
    /\ GeometryOf(1).buffer_pages >= 2
    /\ \E p \in Positions("write_flash", 1) : cmds[p].num < GeometryOf(1).buffer_pages

\* C2: in every state 0 <= ctr <= buffer_pages of the target being flashed,
\* and no write_flash command has num_pages greater than the buffer_pages of
\* its target.
C2_BatchBound ==
    /\ 0 <= ctr
    /\ ctr <= t_data.buffer_pages
    /\ \A p \in 1..Len(cmds) :
         IsWrite(cmds[p]) => cmds[p].num <= GeometryOf(cmds[p].file).buffer_pages

\* The buffer is full (ctr = buffer_pages >= 2) right after an upload.
C2_Witness ==
    /\ pc = "if_full"
    /\ ctr = t_data.buffer_pages
    /\ t_data.buffer_pages >= 2

\* The upload that most recently precedes position p in cmds (0 if none)
LastUploadBefore(p) ==
    LET U == {q \in 1..(p - 1) : IsUpload(cmds[q]) /\ cmds[q].file = cmds[p].file}
    IN IF U = {} THEN 0 ELSE CHOOSE q \in U : \A r \in U : r <= q

\* Index in the image of the page an upload command carries
PageIndexOf(q) == cmds[q].data.lo \div GeometryOf(cmds[q].file).page_size

\* C3: every write_flash(addr, 0, dest, n), in the loop or after it, has
\* dest = start_page + (k - (n - 1)), k being the index of the most recently
\* uploaded image page: the flash page of the first buffered page.
C3_DestinationDerivation ==
    \A p \in 1..Len(cmds) :
        IsWrite(cmds[p]) =>
            /\ cmds[p].src = 0
            /\ LastUploadBefore(p) # 0
            /\ cmds[p].dest = GeometryOf(cmds[p].file).start_page
                               + (PageIndexOf(LastUploadBefore(p)) - (cmds[p].num - 1))

\* A residual write of at least two pages issued after a full-buffer write.
C3_Witness ==
    /\ pc = "ff_loop"
    /\ 1 \in Completed
    /\ \E p, q \in Positions("write_flash", 1) :
         /\ p < q
         /\ cmds[p].num = GeometryOf(1).buffer_pages
         /\ cmds[q].num >= 2
         /\ cmds[q].num < GeometryOf(1).buffer_pages

\* The usable flash range of a geometry, in bytes
Capacity(g) == (g.flash_pages - g.start_page) * g.page_size

\* File number n has been handed to _internal_flash
Started(n) == n <= art \/ (n = art + 1 /\ pc \notin {"ff_loop", "if_start"})

\* C4: an image longer than (flash_pages - start_page) * page_size makes
\* _internal_flash fail with the not-enough-space error before any
\* upload_buffer or write_flash is issued for it; an image of exactly that
\* length passes the guard and, when it completes, all its pages were uploaded.
C4_SizeGuard ==
    \A n \in 1..Len(flash_artifacts) :
        LET g == GeometryOf(n)
            L == LengthOf(n)
        IN /\ (L > Capacity(g)) =>
                /\ Positions("upload_buffer", n) = {}
                /\ Positions("write_flash", n) = {}
                /\ n \notin Completed
                /\ Started(n) =>
                     (pc = "raised" /\ err = "Not enough space to flash the image file")
           /\ (L >= 1 /\ L = Capacity(g)) =>
                /\ err # "Not enough space to flash the image file"
                /\ n \in Completed =>
                     Cardinality(Positions("upload_buffer", n)) = CeilDiv(L, g.page_size)

\* An image one byte longer than the usable range was refused, nothing issued.
C4_Witness ==
    /\ pc = "raised"
    /\ err = "Not enough space to flash the image file"
    /\ LengthOf(1) = Capacity(GeometryOf(1)) + 1
    /\ Capacity(GeometryOf(1)) >= 2
    /\ Positions("upload_buffer", 1) = {}

\* ------------------------------------------------ claims on flash_full
Ops == {cmds[p].op : p \in 1..Len(cmds)}

Range(seq) == {seq[k] : k \in 1..Len(seq)}

\* Positions in cmds of the page uploads and page programs
FlashPositions == {p \in 1..Len(cmds) : cmds[p].op \in {"upload_buffer", "write_flash"}}

\* C5: with a non-empty targets list, a main-MCU artifact is written (an
\* upload_buffer or write_flash is issued for it) only if its (platform,
\* target, type) triple is an element of targets.
C5_SelectionFilter ==
    Len(targets) # 0 =>
        \A p \in FlashPositions : flash_artifacts[cmds[p].file].target \in Range(targets)

\* The commands flash itself may issue (start_bootloader's are not among them)
FlashOps == {"upload_buffer", "write_flash", "reset_to_firmware", "close",
             "scf.open_link", "write_sync", "flashing_done"}

\* C6: for a file that is not a ZIP archive, flash with a targets list whose
\* length is not 1 fails before it issues any device command; with exactly one
\* target it proceeds with a single artifact holding the whole file, bound to
\* that target.
C6_RawBinary ==
    file.kind = "raw" =>
        /\ Len(targets) # 1 =>
             /\ pc = "raised"
             /\ err = "Cannot flash a .bin to more than one target!"
             /\ Ops \cap FlashOps = {}
        /\ Len(targets) = 1 =>
             /\ err # "Cannot flash a .bin to more than one target!"
             /\ artifacts = <<[content |-> file.content, target |-> targets[1]]>>

\* A raw file given with two targets was refused.
C6_Witness ==
    /\ file.kind = "raw"
    /\ Len(targets) = 2
    /\ pc = "raised"

DeckPipelinePcs == {"f_reset", "f_close", "fd_open", "fd_mems", "fd_loop", "fd_wait",
                    "fd_checks", "fd_write", "f_reenter", "f_reentered"}

OnlyDeckTargets == Len(targets) # 0 /\ \A t \in Range(targets) : t.platform = "deck"

\* C7: in a cold session flash never enters the deck pipeline (no reset to
\* firmware and close before the end of flash, no application-mode session, no
\* deck write); with only deck targets a cold flash issues no upload_buffer or
\* write_flash and, when it returns, reports the deck update as skipped on
\* coldboot.
C7_ColdNoDecks ==
    ~warm =>
        /\ pc \notin DeckPipelinePcs
        /\ ~scf_link
        /\ Ops \cap {"close", "scf.open_link", "write_sync"} = {}
        /\ \A p \in 1..Len(cmds) :
             cmds[p].op = "reset_to_firmware" =>
                 \E q \in 1..(p - 1) : cmds[q].op = "flashing_done"
        /\ OnlyDeckTargets =>
             /\ FlashPositions = {}
             /\ \A p \in 1..Len(cmds) :
                  cmds[p].op = "flashing_done" =>
                      cmds[p].msg = "Deck update skipped in ColdBoot mode."

\* A cold flash_full with only a deck target returned, the bundle holding an
\* image for the main MCU too.
C7_Witness ==
    /\ ~warm
    /\ OnlyDeckTargets
    /\ pc = "returned"
    /\ file.kind = "zip"
    /\ flash_artifacts # <<>>
    /\ "flashing_done" \in Ops

\* The session is connected to a device that runs its bootloader
ConnectedBootloader == cload_link /\ started /\ device_mode = "bootloader"

\* C8: a flash that went through the deck pipeline and returns normally has
\* the session back in connected-bootloader mode.
C8_ModeRestored ==
    (pc \in {"f_done", "full_reset"} /\ deck_update_msg = "Deck update complete.")
        => ConnectedBootloader

UploadsAfterTerminate ==
    Cardinality({k \in 1..Len(Transfers) :
                    k > terminate_at /\ Transfers[k].op = "upload_buffer"})

DeckWritesAfterTerminate ==
    Cardinality({k \in 1..Len(Transfers) :
                    k > terminate_at /\ Transfers[k].op = "write_sync"})

C10_LinkInvariant ==
    /\ ~(cload_link /\ (cf_link \/ scf_link))
    /\ ~(cf_link /\ scf_link)
    /\ pc = "raised" => ~scf_link

\* A step that opens the bootloader link, or the deck pipeline's session,
\* starts from a state where no other session holds the link
C10_OpenOnlyWhenFree ==
    /\ (~cload_link /\ cload_link') => (~cf_link /\ ~scf_link)
    /\ (~scf_link /\ scf_link') => (~cf_link /\ ~cload_link)

SupportedProtocols == {"CF1_PROTO_VER_0", "CF1_PROTO_VER_1", "CF2_PROTO_VER"}

\* start_bootloader has just returned success to flash_full or to flash
ReturnedSuccess == pc \in {"full_started", "f_reentered"} /\ started

\* C11: when the device advertises a protocol version that is none of
\* CF1_PROTO_VER_0, CF1_PROTO_VER_1 and CF2_PROTO_VER, start_bootloader does
\* not return success and flash_full issues no upload_buffer or write_flash.
C11_UnsupportedProtocolAborts ==
    (protocol_version \notin SupportedProtocols \cup {"unset"}) =>
        /\ ~ReturnedSuccess
        /\ FlashPositions = {}

\* A device command that was answered with a failure
FailedWrite(c) == c.op \in {"write_flash", "write_sync"} /\ ~c.ok

\* C12: after a write_flash that returns non-success, or a deck write_sync
\* that returns false, the call has ended with the matching error; nothing
\* but the error report follows the failed command (no upload_buffer,
\* write_flash, write_sync or any other device command, and no 'Flashing
\* done' report).
C12_WriteFailureAborts ==
    \A p \in 1..Len(cmds) :
        FailedWrite(cmds[p]) =>
            /\ pc = "raised"
            /\ err = (IF cmds[p].op = "write_flash"
                      THEN "Error during flash operation"
                      ELSE "Failed to update deck")
            /\ \A q \in (p + 1)..Len(cmds) :
                 /\ cmds[q].op = "progress"
                 /\ cmds[q].msg \in {"Error during flash operation", "Failed to update deck"}

\* The first of two images failed on a write while pages of it were still to
\* be uploaded.
C12_Witness ==
    /\ pc = "raised"
    /\ err = "Error during flash operation"
    /\ Len(flash_artifacts) = 2
    /\ art = 0
    /\ i + 1 < PageCount(image_len, t_data.page_size)
    /\ \E p \in 1..Len(cmds) : FailedWrite(cmds[p])

\* Positions in cmds of the progress reports made while flashing file number n
ProgressPositions(n) == Positions("progress", n)

\* C13: every percent value passed to progress_cb during the flashing of one
\* artifact lies in 0..100 and the values of one artifact never decrease.
C13_ProgressRange ==
    \A n \in 1..Len(flash_artifacts) :
        /\ \A p \in ProgressPositions(n) : cmds[p].percent \in 0..100
        /\ \A p, q \in ProgressPositions(n) : p < q => cmds[p].percent <= cmds[q].percent

\* C14: a flash_full call given a filename whose flash step completes issues
\* reset_to_firmware as its last command, right after flash has reported
\* 'Flashing done' (so after every upload_buffer and write_flash and after the
\* re-entry into the bootloader); the reset is addressed to the NRF51 for
\* CF2_PROTO_VER and to the STM32 otherwise.
C14_FinalReset ==
    (pc = "returned" /\ filename = "given") =>
        /\ Len(cmds) >= 2
        /\ cmds[Len(cmds)].op = "reset_to_firmware"
        /\ cmds[Len(cmds)].target =
              (IF protocol_version = "CF2_PROTO_VER" THEN "nrf51" ELSE "stm32")
        /\ cmds[Len(cmds) - 1].op = "flashing_done"
        /\ \A p \in 1..(Len(cmds) - 1) :
             cmds[p].op = "reset_to_firmware" =>
                 \E q \in (p + 1)..(Len(cmds) - 1) : cmds[q].op = "reset_to_bootloader"

\* A warm CF2 upgrade that flashed the main MCU, wrote a deck, re-entered the
\* bootloader and returned.
C14_Witness ==
    /\ pc = "returned"
    /\ warm
    /\ protocol_version = "CF2_PROTO_VER"
    /\ FlashPositions # {}
    /\ "write_sync" \in Ops
    /\ cmds[Len(cmds)].target = "nrf51"

\* The commands start_bootloader issues on the link
LinkOps == {"open_bootloader_uri", "reset_to_bootloader"}

\* C15: a bundle whose manifest version is not 1 is rejected with a hard
\* error before any link activity: no bootloader open or reset, no
\* upload_buffer and no write_flash happens in a flash_full of such a bundle.
C15_BadManifestBeforeLink ==
    (file.kind = "zip" /\ file.version # 1) =>
        /\ pc = "raised"
        /\ err = "Wrong manifest version"
        /\ Ops \cap LinkOps = {}
        /\ FlashPositions = {}

\* Positions in cmds of the deck writes
DeckWritePositions == {p \in 1..Len(cmds) : cmds[p].op = "write_sync"}

RECURSIVE Nth(_, _)
Nth(S, k) ==
    LET m == CHOOSE x \in S : \A y \in S : x <= y
    IN IF k = 1 THEN m ELSE Nth(S \ {m}, k - 1)

\* C17: for an image of P = ceil(L / page_size) pages and buffer_pages = B,
\* a successful _internal_flash issues exactly P upload_buffer and exactly
\* ceil(P / B) write_flash commands; the j-th write starts at flash page
\* start_page + (j - 1) * B, every write but the last has num_pages = B and
\* the last has B when P mod B = 0 and P mod B otherwise; when the page loop
\* ends the counter holds P mod B, so the residual write is issued if and
\* only if P mod B # 0 and carries P mod B pages.
C17_CommandCounts ==
    /\ \A n \in Completed :
         LET g == GeometryOf(n)
             B == g.buffer_pages
             P == CeilDiv(LengthOf(n), g.page_size)
             W == Positions("write_flash", n)
         IN /\ Cardinality(Positions("upload_buffer", n)) = P
            /\ Cardinality(W) = CeilDiv(P, B)
            /\ \A j \in 1..Cardinality(W) :
                 /\ cmds[Nth(W, j)].dest = g.start_page + (j - 1) * B
                 /\ cmds[Nth(W, j)].num =
                       (IF j < Cardinality(W) \/ P % B = 0 THEN B ELSE P % B)
    /\ pc = "if_residual" =>
         LET B == t_data.buffer_pages
             P == CeilDiv(image_len, t_data.page_size)
         IN /\ ctr = P % B
            /\ Cardinality(Positions("upload_buffer", art + 1)) = P
            /\ Cardinality(Positions("write_flash", art + 1)) = P \div B

\* An image of exactly two full buffers: two full writes, the counter back at
\* 0 and no residual write.
C17_Witness ==
    /\ pc = "ff_loop"
    /\ 1 \in Completed
    /\ GeometryOf(1).buffer_pages = 2
    /\ Cardinality(Positions("upload_buffer", 1)) = 4
    /\ Cardinality(Positions("write_flash", 1)) = 2
    /\ ctr = 0

\* --- the device as a staging buffer and a flash array
Stale == [lo |-> -1, hi |-> -1]
Erased == [lo |-> -2, hi |-> -2]
Slots == 0..MaxBufferPages
FlashPages == 0..(MaxFlashPages + MaxBufferPages)

\* The device after the first k commands of the log, as far as file number n
\* is concerned: upload_buffer(addr, b, 0, s) stores s in slot b;
\* write_flash(addr, 0, dest, num) copies slots 0..num-1 to the flash pages
\* dest..dest+num-1.  A slot is marked stale once it has been programmed, so a
\* page programmed from a slot that was not uploaded anew shows as stale.
RECURSIVE DeviceAfter(_, _)
DeviceAfter(n, k) ==
    IF k = 0
    THEN [buf |-> [b \in Slots |-> Stale], flash |-> [pg \in FlashPages |-> Erased]]
    ELSE LET d == DeviceAfter(n, k - 1)
             c == cmds[k]
         IN IF c.op = "upload_buffer" /\ c.file = n
            THEN [buf |-> [b \in Slots |-> IF b = c.page THEN c.data ELSE d.buf[b]],
                  flash |-> d.flash]
            ELSE IF c.op = "write_flash" /\ c.file = n
                 THEN [buf |-> [b \in Slots |-> Stale],
                       flash |-> [pg \in FlashPages |->
                                    IF pg \in c.dest..(c.dest + c.num - 1)
                                    THEN d.buf[c.src + (pg - c.dest)]
                                    ELSE d.flash[pg]]]
                 ELSE d

\* image[j * page_size : (j + 1) * page_size] of an image of length len
ImagePage(j, len, page_size) ==
    [lo |-> j * page_size,
     hi |-> IF (j + 1) * page_size < len THEN (j + 1) * page_size ELSE len]

\* C20: after a successful _internal_flash of an image of length L, flash
\* page start_page + j holds exactly image[j*page_size : (j+1)*page_size] for
\* every j in 0..ceil(L/page_size)-1, every programmed slot had been uploaded
\* since the previous write_flash, and no other flash page was programmed.
C20_FlashContents ==
    \A n \in Completed :
        LET g == GeometryOf(n)
            P == CeilDiv(LengthOf(n), g.page_size)
            dev == DeviceAfter(n, Len(cmds))
        IN \A pg \in FlashPages :
             dev.flash[pg] =
                 (IF pg \in g.start_page..(g.start_page + P - 1)
                  THEN ImagePage(pg - g.start_page, LengthOf(n), g.page_size)
                  ELSE Erased)

\* An image with a partial last page was programmed in a full batch of three
\* pages and a residual batch, starting above flash page 0.
C20_Witness ==
    /\ pc = "ff_loop"
    /\ 1 \in Completed
    /\ GeometryOf(1).buffer_pages = 3
    /\ GeometryOf(1).page_size = 2
    /\ GeometryOf(1).start_page = 1
    /\ LengthOf(1) = 7
    /\ Cardinality(Positions("write_flash", 1)) = 2

\* Where the manifest's files map declares artifact a
ManifestIndex(a) == CHOOSE k \in 1..Len(file.files) : file.files[k] = a

\* The commands of the deck excursion
ExcursionOps == {"reset_to_firmware", "close", "scf.open_link", "write_sync"}

\* C18: main-MCU artifacts are flashed one after another in the order the
\* manifest's files map declares them (all upload_buffer and write_flash
\* commands of artifact k precede every command of artifact k + 1, each
\* addressed to its artifact's target) and every such command precedes the
\* deck excursion (the reset to firmware, the deck session, the deck writes).
C18_ArtifactOrder ==
    /\ \A p, q \in FlashPositions : p < q => cmds[p].file <= cmds[q].file
    /\ \A p \in FlashPositions :
         /\ cmds[p].file \in 1..Len(flash_artifacts)
         /\ cmds[p].addr = flash_artifacts[cmds[p].file].target.target
    /\ Len(ArtifactsFromZip(file)) > 0 =>
         \A a, b \in 1..Len(flash_artifacts) :
             a < b => ManifestIndex(flash_artifacts[a]) < ManifestIndex(flash_artifacts[b])
    /\ \A p \in FlashPositions :
         \A q \in 1..Len(cmds) : cmds[q].op \in ExcursionOps => p < q

\* Two images, the NRF51's declared first, were both flashed before the deck
\* session was opened.
C18_Witness ==
    /\ Len(flash_artifacts) = 2
    /\ flash_artifacts[1].target.target = "nrf51"
    /\ Positions("write_flash", 1) # {}
    /\ Positions("write_flash", 2) # {}
    /\ "scf.open_link" \in Ops

\* C19: in a warm upgrade flash hands off to the deck pipeline (reset to
\* firmware, close of the bootloader link, application-mode session) only if
\* the bundle yielded at least one artifact with platform 'deck'.
C19_HandoffNeedsDeckArtifact ==
    (warm /\ (pc \in DeckPipelinePcs \/ Ops \cap {"close", "scf.open_link"} # {})) =>
        \E a \in Range(artifacts) : a.target.platform = "deck"

\* ------------------------------------------- claims on the deck pipeline
\* _flash_deck has ended: it returned to flash (line 173) or raised
DeckPipelineEnded == pc \in {"f_reenter", "raised"}

\* Whenever the pipeline is at the started-check, the deck's record reports
\* is_started now or after some later query
DeckEventuallyStarts == [](pc = "fd_wait" => <>deck.is_started)

\* A step taken while the deck at the started-check reports not started
\* leaves the pipeline at the started-check of the same deck, issues no
\* command and raises nothing, whatever the termination callback would return
WaitOnlyRequeries ==
    (pc = "fd_wait" /\ ~deck.is_started) =>
        /\ pc' = "fd_wait"
        /\ err' = err
        /\ cmds' = cmds
        /\ deck_idx' = deck_idx
        /\ decks' = decks
        /\ deck'.name = deck.name

\* C21: _flash_deck terminates, by returning or raising, provided every deck
\* that reaches the started-check eventually reports is_started in some
\* re-query; while a deck reports not started the pipeline only re-queries
\* that deck, issues no write_sync and does not poll terminate_flashing_cb,
\* so it keeps waiting even when cancellation has been requested.
C21_DeckPipelineTermination ==
    /\ DeckEventuallyStarts => <>DeckPipelineEnded
    /\ [][WaitOnlyRequeries]_vars

\* The pipeline waits for a deck that reports not started while the
\* termination callback already returns true.
C21_Witness ==
    /\ pc = "fd_wait"
    /\ ~deck.is_started
    /\ has_terminate_cb
    /\ terminate

\* ------------------------------------------- claims on MovingAverage
RECURSIVE SumSeq(_)
SumSeq(seq) == IF seq = <<>> THEN 0 ELSE seq[1] + SumSeq(Tail(seq))

\* The last size values of: size fills followed by the updates
ExpectedWindow ==
    LET padded == [k \in 1..size |-> fill] \o updates
    IN SubSeq(padded, Len(padded) - size + 1, Len(padded))

\* C22: after any sequence of update(v) calls on a MovingAverage of size
\* n >= 1 and fill f, the window still has n elements, _sum is the sum of the
\* window, and getAverage() is the mean of the last n updated values, f
\* standing in for each slot not yet overwritten.
C22_MovingAverage ==
    /\ Len(elements) = size
    /\ sum = SumSeq(elements)
    /\ elements = ExpectedWindow
    /\ getAverage.den = size
    /\ getAverage.num = SumSeq(ExpectedWindow)

\* A window of two that has been overwritten more than once, by values
\* other than the fill, part of them out of the window again.
C22_Witness ==
    /\ size = 2
    /\ Len(updates) = 3
    /\ updates[1] # updates[3]
    /\ \A k \in 1..3 : updates[k] # fill
    /\ recent_value = updates[3]

====
